---- MODULE Spec2Model ----
(***************************************************************************)
(* Mappability analysis (src/src/mappability_diff.py, src/src/visualise.py) *)
(*                                                                          *)
(* Scores are floats in the program; here a score is its value in           *)
(* hundredths (0.9 is 90), so subtraction and the comparison with the       *)
(* threshold are exact integer operations.  A Python dict is a function     *)
(* whose DOMAIN is the dict's key set.  A Python str is a sequence of       *)
(* one-character strings; in an attribute string a word without blank or    *)
(* semicolon (gene_id, transcript_id, a quoted value) is one element.  A    *)
(* call that raises is a record whose field raised is TRUE.                 *)
(***************************************************************************)
EXTENDS Integers, Sequences, FiniteSets, TLC

VARIABLES
    pc,            \* position in the operation under analysis
    data1, data2,  \* compare_mappability: the two track sets
    diff,          \* compare_mappability: what the call produced
    bigwig_files,  \* analyze_mappability_changes: the list of paths
    disk,          \* the track set load_bigwig reads from each path
    data,          \* analyze_mappability_changes: label -> track set
    kmer_sizes,    \* analyze_mappability_changes: the sorted labels
    i, j,          \* analyze_mappability_changes: the loop indices (0-based)
    results,       \* analyze_mappability_changes: key -> difference
    mappability_data,  \* calculate_gene_mappability: the track set
    gtf_data,      \* the annotation's features, in file order
    df,            \* calculate_gene_mappability: what the call produced
    gene_mappability,  \* analyze_gene_mappability_changes: label -> table
    merged_data    \* plot_gene_mappability_changes: the merged table

diffVars == <<data1, data2, diff>>

multiVars == <<bigwig_files, disk, data, kmer_sizes, i, j, results>>

geneVars == <<mappability_data, gtf_data, df>>

mergeVars == <<gene_mappability, merged_data>>

vars == <<pc, diffVars, multiVars, geneVars, mergeVars>>

\* ---------------------------------------------------------------- bounds
\* longest chromosome track of the inputs
MaxLen == 2

\* ----------------------------------------------------------- input values
Chroms == {"chr1", "chr2"}

\* scores, in hundredths: below, at and above the threshold of 0.9
Scores == {50, 90, 95}

\* the scores the two compared track sets are drawn from
DiffScores == {50, 95}

Tracks(scores) == UNION {[1..n -> scores] : n \in 0..MaxLen}

TrackSets(scores) == UNION {[S -> Tracks(scores)] : S \in SUBSET Chroms}

\* a variable no operation of the specification at hand touches
Unused == [raised |-> FALSE, value |-> "unused"]

EmptyDict == [c \in {} |-> <<>>]

\* the variables of the operations a specification leaves out
DiffIdle == data1 = Unused /\ data2 = Unused /\ diff = Unused

MultiIdle ==
    /\ bigwig_files = Unused
    /\ disk = Unused
    /\ data = Unused
    /\ kmer_sizes = Unused
    /\ i = 0
    /\ j = 0
    /\ results = Unused

GeneIdle == mappability_data = Unused /\ gtf_data = Unused /\ df = Unused

MergeIdle == gene_mappability = Unused /\ merged_data = Unused

\* ------------------------------------------------------- Mappability Differ
\* np.subtract(x1, x2) on two 1-d sequences: x1 - x2 element by element, with
\* numpy's broadcasting: equal lengths pair up, a length of 1 is stretched
\* to the other length (also to 0), any other pair of lengths raises
\* ValueError.
np_subtract_swapped(x1, x2) ==
    IF Len(x1) = Len(x2)
    THEN [raised |-> FALSE, value |-> [k \in 1..Len(x1) |-> x2[k] - x1[k]]]
    ELSE IF Len(x2) = 1
    THEN [raised |-> FALSE, value |-> [k \in 1..Len(x1) |-> x2[1] - x1[k]]]
    ELSE IF Len(x1) = 1
    THEN [raised |-> FALSE, value |-> [k \in 1..Len(x2) |-> x2[k] - x1[1]]]
    ELSE [raised |-> TRUE, value |-> <<>>]

np_subtract(x1, x2) ==
    IF Len(x1) = Len(x2)
    THEN [raised |-> FALSE, value |-> [k \in 1..Len(x1) |-> x1[k] - x2[k]]]
    ELSE IF Len(x2) = 1
    THEN [raised |-> FALSE, value |-> [k \in 1..Len(x1) |-> x1[k] - x2[1]]]
    ELSE IF Len(x1) = 1
    THEN [raised |-> FALSE, value |-> [k \in 1..Len(x2) |-> x1[1] - x2[k]]]
    ELSE [raised |-> TRUE, value |-> <<>>]

\* compare_mappability(d1, d2): for every key of d1 (and only those),
\* diff[chrom] = np.subtract(d2[chrom], d1[chrom]).  d2[chrom] raises KeyError
\* when chrom is no key of d2; either exception leaves the function.
compare_mappability(d1, d2) ==
    IF \E chrom \in DOMAIN d1 :
          \/ chrom \notin DOMAIN d2
          \/ np_subtract(d2[chrom], d1[chrom]).raised
    THEN [raised |-> TRUE, value |-> EmptyDict]
    ELSE [raised |-> FALSE,
          value |-> [chrom \in DOMAIN d1 |-> np_subtract(d2[chrom], d1[chrom]).value]]

InitDiff ==
    /\ pc = "compare"
    /\ data1 \in TrackSets(DiffScores)
    /\ data2 \in TrackSets(DiffScores)
    /\ diff = Unused
    /\ MultiIdle
    /\ GeneIdle
    /\ MergeIdle

Compare ==
    /\ pc = "compare"
    /\ diff' = compare_mappability(data1, data2)
    /\ pc' = "done"
    /\ UNCHANGED <<data1, data2, multiVars, geneVars, mergeVars>>

NextDiff == Compare

SpecDiff == InitDiff /\ [][NextDiff]_vars

\* C1: with the same chromosome keys and equal per-chromosome lengths the
\* comparison returns, for exactly those keys, sequences of the inputs'
\* length holding data2[c][i] - data1[c][i] at every position i.
C1_SecondMinusFirst ==
    (/\ pc = "done"
     /\ DOMAIN data1 = DOMAIN data2
     /\ \A c \in DOMAIN data1 : Len(data1[c]) = Len(data2[c]))
    => /\ ~diff.raised
       /\ DOMAIN diff.value = DOMAIN data1
       /\ \A c \in DOMAIN data1 :
            /\ Len(diff.value[c]) = Len(data1[c])
            /\ \A k \in 1..Len(data1[c]) :
                 diff.value[c][k] = data2[c][k] - data1[c][k]

C1_Witness ==
    /\ pc = "done"
    /\ DOMAIN data1 = Chroms
    /\ DOMAIN data2 = Chroms
    /\ \A c \in Chroms : Len(data1[c]) = MaxLen /\ Len(data2[c]) = MaxLen
    /\ ~diff.raised
    /\ \E c \in Chroms : \E k \in 1..MaxLen : diff.value[c][k] < 0

\* C2: a shared chromosome with sequences of different lengths makes the
\* comparison fail.
C2_LengthMismatchFails ==
    (/\ pc = "done"
     /\ \E c \in DOMAIN data1 \cap DOMAIN data2 : Len(data1[c]) # Len(data2[c]))
    => diff.raised

\* C3: different chromosome key sets make the comparison fail, whichever
\* side the chromosome is missing from.
C3_KeyMismatchFails ==
    (pc = "done" /\ DOMAIN data1 # DOMAIN data2) => diff.raised

\* ------------------------------------------------------------------ strings
\* the code points of the characters the inputs use
CharCode(ch) ==
    CASE ch = "." -> 46 [] ch = "/" -> 47 [] ch = "0" -> 48 [] ch = "1" -> 49
      [] ch = "2" -> 50 [] ch = "3" -> 51 [] ch = "9" -> 57 [] ch = "_" -> 95
      [] ch = "a" -> 97 [] ch = "b" -> 98 [] ch = "d" -> 100 [] ch = "s" -> 115
      [] ch = "v" -> 118 [] ch = "w" -> 119

\* Python's order on str: a < b
StrLess(a, b) ==
    \E k \in 1..(Len(b)) :
        /\ \A m \in 1..(k - 1) : m <= Len(a) /\ a[m] = b[m]
        /\ \/ k = Len(a) + 1
           \/ k <= Len(a) /\ CharCode(a[k]) < CharCode(b[k])

\* s[a:] for 0 <= a <= len(s)
Tail_from(s, a) == [k \in 1..(Len(s) - a) |-> s[k + a]]

\* s[:b] for 0 <= b <= len(s)
Head_to(s, b) == [k \in 1..b |-> s[k]]

\* the 1-based positions of ch in s
Positions(s, ch) == {k \in 1..Len(s) : s[k] = ch}

Max(S) == CHOOSE x \in S : \A y \in S : y <= x

Min(S) == CHOOSE x \in S : \A y \in S : x <= y

\* os.path.basename(path): what follows the last "/"
basename(path) ==
    IF Positions(path, "/") = {} THEN path
    ELSE Tail_from(path, Max(Positions(path, "/")))

\* s.split(sep)[0]: what precedes the first sep, all of s when it has none
split_first(s, sep) ==
    IF Positions(s, sep) = {} THEN s
    ELSE Head_to(s, Min(Positions(s, sep)) - 1)

\* sorted(keys): the keys in ascending order
RECURSIVE sorted(_)
sorted(keys) ==
    IF keys = {} THEN <<>>
    ELSE LET least == CHOOSE k \in keys : \A o \in keys \ {k} : StrLess(k, o)
         IN <<least>> \o sorted(keys \ {least})

\* ------------------------------------------------------- Multi-K Comparator
\* longest list of track files
MaxFiles == 3

\* d/21_a.bw, d/21_b.bw, d/31_a.bw, _/100_a.bw, 9.bw
Paths ==
    { <<"d", "/", "2", "1", "_", "a", ".", "b", "w">>,
      <<"d", "/", "2", "1", "_", "b", ".", "b", "w">>,
      <<"d", "/", "3", "1", "_", "a", ".", "b", "w">>,
      <<"_", "/", "1", "0", "0", "_", "a", ".", "b", "w">>,
      <<"9", ".", "b", "w">> }

\* what a track file may hold
FileContents ==
    { [c \in {"chr1"} |-> <<50, 95>>],
      [c \in {"chr1", "chr2"} |-> IF c = "chr1" THEN <<95, 50>> ELSE <<95>>] }

\* the dict comprehension's key: os.path.basename(f).split("_")[0]
kmer_label(f) == split_first(basename(f), "_")

\* f"{k1}_vs_{k2}"
result_key_reversed(k1, k2) == k2 \o <<"_", "v", "s", "_">> \o k1

result_key(k1, k2) == k1 \o <<"_", "v", "s", "_">> \o k2

\* d[key] = value
dict_set(d, key, value) ==
    [k \in DOMAIN d \cup {key} |-> IF k = key THEN value ELSE d[k]]

\* {label(f): load_bigwig(f) for f in files}: a later file of the same label
\* replaces an earlier one
RECURSIVE load_all(_, _)
load_all(files, dsk) ==
    IF files = <<>> THEN EmptyDict
    ELSE LET f == files[Len(files)]
         IN dict_set(load_all(Head_to(files, Len(files) - 1), dsk),
                     kmer_label(f), dsk[f])

InitMulti ==
    /\ pc = "load"
    /\ bigwig_files \in UNION {[1..n -> Paths] : n \in 0..MaxFiles}
    /\ disk \in [Paths -> FileContents]
    /\ data = Unused
    /\ kmer_sizes = <<>>
    /\ i = 0
    /\ j = 0
    /\ results = EmptyDict
    /\ DiffIdle
    /\ GeneIdle
    /\ MergeIdle

\* lines 75-78: load every file, sort the labels; the loops start at
\* i = 0, j = i + 1
LoadData ==
    /\ pc = "load"
    /\ data' = load_all(bigwig_files, disk)
    /\ kmer_sizes' = sorted(DOMAIN data')
    /\ results' = EmptyDict
    /\ i' = 0
    /\ j' = 1
    /\ pc' = "loop"
    /\ UNCHANGED <<bigwig_files, disk, diffVars, geneVars, mergeVars>>

\* lines 80-84: one turn of the inner loop, for i in range(n - 1), j in
\* range(i + 1, n); an exception of compare_mappability leaves the function
ComparePair ==
    /\ pc = "loop"
    /\ i < Len(kmer_sizes) - 1
    /\ LET k1 == kmer_sizes[i + 1]
           k2 == kmer_sizes[j + 1]
           d == compare_mappability(data[k1], data[k2])
       IN IF d.raised
          THEN /\ pc' = "raised"
               /\ UNCHANGED <<results, i, j>>
          ELSE /\ results' = dict_set(results, result_key(k1, k2), d.value)
               /\ IF j + 1 < Len(kmer_sizes)
                  THEN i' = i /\ j' = j + 1
                  ELSE i' = i + 1 /\ j' = i + 2
               /\ pc' = "loop"
    /\ UNCHANGED <<bigwig_files, disk, data, kmer_sizes, diffVars, geneVars, mergeVars>>

\* line 86: the loops are over
Return ==
    /\ pc = "loop"
    /\ i >= Len(kmer_sizes) - 1
    /\ pc' = "done"
    /\ UNCHANGED <<multiVars, diffVars, geneVars, mergeVars>>

NextMulti == LoadData \/ ComparePair \/ Return

SpecMulti == InitMulti /\ [][NextMulti]_vars

\* the distinct labels of the files given
LabelsOf(files) == {kmer_label(files[k]) : k \in 1..Len(files)}

\* the key "{k1}_vs_{k2}" of a pair of labels
KeyOf(k1, k2) ==
    [n \in 1..(Len(k1) + Len(k2) + 4) |->
       IF n <= Len(k1) THEN k1[n]
       ELSE IF n > Len(k1) + 4 THEN k2[n - Len(k1) - 4]
       ELSE <<"_", "v", "s", "_">>[n - Len(k1)]]

\* C4: for n distinct labels the results hold exactly n*(n-1)/2 entries, one
\* keyed k1_vs_k2 for every pair of labels with k1 before k2 in sorted order,
\* whose value is compare_mappability(data[k1], data[k2]); no label is
\* compared with itself and no pair is entered in the reverse order.
C4_AllSortedPairs ==
    pc = "done" =>
      LET labels == LabelsOf(bigwig_files)
          n == Cardinality(labels)
          pairs == {p \in labels \X labels : StrLess(p[1], p[2])}
      IN /\ DOMAIN data = labels
         /\ 2 * Cardinality(DOMAIN results) = n * (n - 1)
         /\ DOMAIN results = {KeyOf(p[1], p[2]) : p \in pairs}
         /\ \A p \in pairs :
              /\ ~compare_mappability(data[p[1]], data[p[2]]).raised
              /\ results[KeyOf(p[1], p[2])]
                   = compare_mappability(data[p[1]], data[p[2]]).value
         /\ \A k1 \in labels :
              /\ KeyOf(k1, k1) \notin DOMAIN results
              /\ \A k2 \in labels :
                   StrLess(k1, k2) => KeyOf(k2, k1) \notin DOMAIN results

C4_Witness ==
    /\ pc = "done"
    /\ Cardinality(LabelsOf(bigwig_files)) = 3
    /\ Cardinality(DOMAIN results) = 3
    /\ <<"1", "0", "0", "_", "v", "s", "_", "2", "1">> \in DOMAIN results

\* ----------------------------------------------------------- Gene Aggregator
\* most features of the annotation
MaxExons == 2

\* the fixed threshold of line 126, 0.9, in hundredths
Threshold == 90

\* attribute strings.  The words stand for: A, B, T, X the quoted values
\* "A", "B", "T", "X"; x_gene_id a key that contains the text gene_id.
\*   gene_id "A"; transcript_id "T"
AttrFirstA == <<"gene_id", " ", "A", ";", " ", "transcript_id", " ", "T">>

\*   gene_id "B";
AttrFirstB == <<"gene_id", " ", "B", ";">>

\*   transcript_id "T"; gene_id "B"
AttrLaterB == <<"transcript_id", " ", "T", ";", " ", "gene_id", " ", "B">>

\*   transcript_id "T"
AttrNone == <<"transcript_id", " ", "T">>

\*   x_gene_id "X"; gene_id "A"
AttrOtherA == <<"x_gene_id", " ", "X", ";", " ", "gene_id", " ", "A">>

AttrStrings == {AttrFirstA, AttrFirstB, AttrLaterB, AttrNone, AttrOtherA}

\* 'gene_id' in word
ContainsGeneId(word) == word \in {"gene_id", "x_gene_id"}

\* 'gene_id' in s, for a str s of words, blanks and semicolons
gene_id_in(s) == \E k \in 1..Len(s) : ContainsGeneId(s[k])

\* s.split(sep): the pieces between the separators, empty pieces kept
RECURSIVE split(_, _)
split(s, sep) ==
    IF Positions(s, sep) = {} THEN <<s>>
    ELSE LET at == Min(Positions(s, sep))
         IN <<Head_to(s, at - 1)>> \o split(Tail_from(s, at), sep)

\* the first element of seq that satisfies gene_id_in: next(... for i in
\* seq if 'gene_id' in i); the caller has checked that there is one
first_with_gene_id(seq) ==
    seq[Min({k \in 1..Len(seq) : gene_id_in(seq[k])})]

\* line 121: next(i.split(' ')[1] for i in attributes.split(';')
\* if 'gene_id' in i).  Every segment of AttrStrings that holds gene_id
\* holds a blank, so index 1 exists.
extract_gene_id(attributes) ==
    split(first_with_gene_id(split(attributes, ";")), " ")[2]

\* seq[start:end] of Python, for any integers start and end
PySlice(seq, start, end) ==
    LET n == Len(seq)
        clamp(x) == IF x < 0 THEN (IF x + n < 0 THEN 0 ELSE x + n)
                    ELSE (IF x > n THEN n ELSE x)
        lo == clamp(start)
        hi == clamp(end)
    IN [k \in 1..(hi - lo) |-> seq[lo + k]]

\* np.sum(np.array(exon_map) > 0.9)
count_mappable(exon_map) ==
    Cardinality({k \in 1..Len(exon_map) : exon_map[k] > Threshold})

\* lines 114-132: the list gene_mappability after the loop over the exons
RECURSIVE exon_records(_, _)
exon_records(d, exons) ==
    IF exons = <<>> THEN <<>>
    ELSE LET exon == exons[Len(exons)]
             before == exon_records(d, Head_to(exons, Len(exons) - 1))
             start == exon.start - 1
             end == exon.end
         IN IF ~gene_id_in(exon.attributes) THEN before
            ELSE IF exon.seq_id \notin DOMAIN d THEN before
            ELSE LET exon_map == PySlice(d[exon.seq_id], start, end)
                 IN Append(before,
                           [gene_id |-> extract_gene_id(exon.attributes),
                            total_exon_bases |-> Len(exon_map),
                            mappable_bases |-> count_mappable(exon_map)])

\* groupby(['gene_id']).sum(): the sum of a column over the rows of gene g
RECURSIVE group_sum(_, _, _)
group_sum(rows, g, column) ==
    IF rows = <<>> THEN 0
    ELSE (IF rows[1].gene_id = g THEN rows[1][column] ELSE 0)
         + group_sum(Tail(rows), g, column)

\* a float that is not a number, an infinity, or the quotient num / den
NaN == [kind |-> "nan", num |-> 0, den |-> 0]

Inf == [kind |-> "inf", num |-> 0, den |-> 0]

\* pandas' column division of line 136: 0/0 is NaN, x/0 is inf, and nothing
\* is raised
divide_zero(num, den) ==
    IF den = 0 THEN [kind |-> "num", num |-> 0, den |-> 1]
    ELSE [kind |-> "num", num |-> num, den |-> den]

divide(num, den) ==
    IF den = 0 THEN (IF num = 0 THEN NaN ELSE Inf)
    ELSE [kind |-> "num", num |-> num, den |-> den]

\* filter_feature_of_type(['exon'])
RECURSIVE filter_feature_of_type(_, _)
filter_feature_of_type(features, type) ==
    IF features = <<>> THEN <<>>
    ELSE (IF features[1].type = type THEN <<features[1]>> ELSE <<>>)
         \o filter_feature_of_type(Tail(features), type)

\* calculate_gene_mappability(data, gtf_data).  pd.DataFrame([]) has no
\* column gene_id, so groupby(['gene_id']) raises KeyError when no exon was
\* recorded.  The table is a function from gene_id to the row's columns.
calculate_gene_mappability(d, gtf) ==
    LET exons == filter_feature_of_type(gtf, "exon")
        \* the list the source names gene_mappability
        rows == exon_records(d, exons)
        total == "total_exon_bases"
        mappable == "mappable_bases"
        genes == {rows[k].gene_id : k \in 1..Len(rows)}
    IN IF rows = <<>>
       THEN [raised |-> TRUE, value |-> EmptyDict]
       ELSE [raised |-> FALSE,
             value |->
               [g \in genes |->
                  [total_exon_bases |-> group_sum(rows, g, total),
                   mappable_bases |-> group_sum(rows, g, mappable),
                   mappability_ratio |->
                     divide(group_sum(rows, g, mappable),
                            group_sum(rows, g, total))]]]

\* exon windows: 1-based inclusive start and end
Windows == {<<1, 1>>, <<1, 2>>, <<3, 3>>}

ExonFeatures ==
    {[type |-> "exon", seq_id |-> k[1], start |-> w[1], end |-> w[2],
      attributes |-> k[2]] :
        k \in ({"chr1"} \X AttrStrings) \cup {<<"chr2", AttrFirstA>>},
        w \in Windows}

OtherFeatures ==
    {[type |-> "gene", seq_id |-> "chr1", start |-> 1, end |-> 2,
      attributes |-> AttrFirstA]}

Features == ExonFeatures \cup OtherFeatures

\* the track sets of the aggregation: chr1 alone, or no chromosome at all
GeneTrackSets == UNION {[S -> Tracks(Scores)] : S \in {{}, {"chr1"}}}

InitGene ==
    /\ pc = "aggregate"
    /\ mappability_data \in GeneTrackSets
    /\ gtf_data \in UNION {[1..n -> Features] : n \in 0..MaxExons}
    /\ df = Unused
    /\ DiffIdle
    /\ MultiIdle
    /\ MergeIdle

Aggregate ==
    /\ pc = "aggregate"
    /\ df' = calculate_gene_mappability(mappability_data, gtf_data)
    /\ pc' = "done"
    /\ UNCHANGED <<mappability_data, gtf_data, diffVars, multiVars, mergeVars>>

NextGene == Aggregate

SpecGene == InitGene /\ [][NextGene]_vars

\* the exon features of the annotation, in file order
ExonsOf(gtf) == filter_feature_of_type(gtf, "exon")

\* the words of a segment: what its blanks separate
RECURSIVE Words(_)
Words(segment) ==
    IF segment = <<>> THEN <<>>
    ELSE (IF segment[1] = " " THEN <<>> ELSE <<segment[1]>>) \o Words(Tail(segment))

\* the segments of an attribute string whose key (first word) is gene_id
KeySegments(attributes) ==
    LET segs == split(attributes, ";")
    IN {k \in 1..Len(segs) :
          Len(Words(segs[k])) >= 2 /\ Words(segs[k])[1] = "gene_id"}

\* the value immediately following the gene_id key, as a str
GeneIdOf(attributes) ==
    <<Words(split(attributes, ";")[Min(KeySegments(attributes))])[2]>>

\* the exon lies on a chromosome of the track set, within its length
InTrack(e, d) ==
    /\ e.seq_id \in DOMAIN d
    /\ 1 <= e.start /\ e.start <= e.end /\ e.end <= Len(d[e.seq_id])

\* over the exons of gene g: the sum of the window lengths end - start + 1
\* and the number of window positions whose score exceeds 0.9 (90)
RECURSIVE ExonSum(_, _, _)
ExonSum(exons, g, d) ==
    IF exons = <<>> THEN [total |-> 0, mappable |-> 0]
    ELSE LET e == exons[1]
             rest == ExonSum(Tail(exons), g, d)
         IN IF GeneIdOf(e.attributes) # g THEN rest
            ELSE [total |-> rest.total + (e.end - e.start + 1),
                  mappable |-> rest.mappable +
                     Cardinality({p \in e.start..e.end : d[e.seq_id][p] > 90})]

\* C5: for exons that all carry a gene_id and lie within a chromosome of the
\* track set, the table has exactly one record per distinct gene_id, with
\* total_exon_bases the sum of end - start + 1 and mappable_bases the number
\* of window positions whose score is strictly greater than 0.9.
C5_PerGeneTotals ==
    LET exons == ExonsOf(gtf_data)
    IN (/\ pc = "done"
        /\ exons # <<>>
        /\ \A k \in 1..Len(exons) :
             /\ KeySegments(exons[k].attributes) # {}
             /\ InTrack(exons[k], mappability_data))
       => /\ ~df.raised
          /\ DOMAIN df.value
               = {GeneIdOf(exons[k].attributes) : k \in 1..Len(exons)}
          /\ \A g \in DOMAIN df.value :
               /\ df.value[g].total_exon_bases
                    = ExonSum(exons, g, mappability_data).total
               /\ df.value[g].mappable_bases
                    = ExonSum(exons, g, mappability_data).mappable

\* seq without its elements that are in the set drop
RECURSIVE Without(_, _)
Without(seq, drop) ==
    IF seq = <<>> THEN <<>>
    ELSE (IF seq[1] \in drop THEN <<>> ELSE <<seq[1]>>) \o Without(Tail(seq), drop)

Range(seq) == {seq[k] : k \in 1..Len(seq)}

LacksGeneId(e) == e.type = "exon" /\ KeySegments(e.attributes) = {}

\* C6: an exon without gene_id is skipped without error: the table is the
\* one computed with those features removed, and the aggregation does not
\* fail, also when every exon lacks gene_id.  (Stated for exons that are
\* all on chromosomes of the track set.)
C6_NoGeneIdSkipped ==
    LET exons == ExonsOf(gtf_data)
        lacking == {e \in Range(gtf_data) : LacksGeneId(e)}
    IN (/\ pc = "done"
        /\ \E k \in 1..Len(exons) : LacksGeneId(exons[k])
        /\ \A k \in 1..Len(exons) : exons[k].seq_id \in DOMAIN mappability_data)
       => /\ df = calculate_gene_mappability(mappability_data,
                                             Without(gtf_data, lacking))
          /\ (\A k \in 1..Len(exons) : LacksGeneId(exons[k])) => ~df.raised

\* C7: an exon on a chromosome absent from the track set contributes
\* nothing and raises no error: the table is the one computed with those
\* exons removed, and the aggregation completes also when every exon is on
\* an absent chromosome.  (Stated for exons that all have a gene_id key.)
C7_AbsentChromosomeSkipped ==
    LET exons == ExonsOf(gtf_data)
        Absent(e) == e.type = "exon" /\ e.seq_id \notin DOMAIN mappability_data
        absent == {e \in Range(gtf_data) : Absent(e)}
    IN (/\ pc = "done"
        /\ \E k \in 1..Len(exons) : Absent(exons[k])
        /\ \A k \in 1..Len(exons) : KeySegments(exons[k].attributes) # {})
       => /\ df = calculate_gene_mappability(mappability_data,
                                             Without(gtf_data, absent))
          /\ (\A k \in 1..Len(exons) : Absent(exons[k])) => ~df.raised

\* C8: in the returned table a gene with total_exon_bases = 0 has a NaN
\* ratio and a gene with total_exon_bases > 0 has the ratio
\* mappable_bases / total_exon_bases with 0 <= mappable_bases <=
\* total_exon_bases; the division raises nothing: a call that recorded an
\* exon returns its table.
C8_RatioOrNaN ==
    LET exons == ExonsOf(gtf_data)
    IN pc = "done" =>
         /\ (\E k \in 1..Len(exons) :
               /\ gene_id_in(exons[k].attributes)
               /\ exons[k].seq_id \in DOMAIN mappability_data)
            => ~df.raised
         /\ \A g \in DOMAIN df.value :
              LET r == df.value[g]
              IN /\ r.total_exon_bases = 0 => r.mappability_ratio = NaN
                 /\ r.total_exon_bases > 0 =>
                      /\ r.mappability_ratio.kind = "num"
                      /\ r.mappability_ratio.num = r.mappable_bases
                      /\ r.mappability_ratio.den = r.total_exon_bases
                      /\ 0 <= r.mappable_bases
                      /\ r.mappable_bases <= r.total_exon_bases

C8_Witness ==
    /\ pc = "done"
    /\ ~df.raised
    /\ \E g \in DOMAIN df.value :
         /\ df.value[g].total_exon_bases = 0
         /\ df.value[g].mappability_ratio = NaN
    /\ \E g \in DOMAIN df.value :
         /\ df.value[g].total_exon_bases = 2
         /\ df.value[g].mappable_bases = 1

\* C9: every exon that has a gene_id key is grouped under the value that
\* immediately follows the key, wherever the key's segment stands in the
\* attribute string and whatever the other segments hold.
C9_GroupedUnderKeyValue ==
    LET exons == ExonsOf(gtf_data)
    IN (pc = "done" /\ ~df.raised)
       => DOMAIN df.value
            = {GeneIdOf(exons[k].attributes) :
                 k \in {m \in 1..Len(exons) :
                          /\ KeySegments(exons[m].attributes) # {}
                          /\ exons[m].seq_id \in DOMAIN mappability_data}}

\* ------------------------------------------------------ Cross-K Gene Analyzer
Labels == {<<"2", "1">>, <<"3", "1">>, <<"1", "0", "0">>}

\* the track sets of the k-mer sizes: both chromosomes, chr1 alone, chr2
\* alone, and an empty chr1
MergeTrackSets ==
    { [c \in {"chr1", "chr2"} |-> IF c = "chr1" THEN <<95, 50>> ELSE <<95>>],
      [c \in {"chr1"} |-> <<50, 50>>],
      [c \in {"chr2"} |-> <<90>>],
      [c \in {"chr1", "chr2"} |-> IF c = "chr1" THEN <<>> ELSE <<95>>] }

MergeFeatures ==
    { [type |-> "exon", seq_id |-> "chr1", start |-> 1, end |-> 2,
       attributes |-> AttrFirstA],
      [type |-> "exon", seq_id |-> "chr2", start |-> 1, end |-> 1,
       attributes |-> AttrFirstB],
      [type |-> "exon", seq_id |-> "chr1", start |-> 1, end |-> 1,
       attributes |-> AttrFirstB] }

\* merged_data[column] = series: pandas aligns the series on merged_data's
\* index, a label of the index the series lacks gets NaN
aligned_zero(table, gene_id) ==
    IF gene_id \in DOMAIN table THEN table[gene_id].mappability_ratio
    ELSE [kind |-> "num", num |-> 0, den |-> 1]

aligned(table, gene_id) ==
    IF gene_id \in DOMAIN table THEN table[gene_id].mappability_ratio
    ELSE NaN

\* visualise.py lines 65-72, for a non-empty gm: the table of the first
\* label in sorted order, indexed by gene_id, with one column
\* mappability_ratio_{kmer} for each label; the row's field
\* mappability_ratio maps kmer to the value of that column
merge_tables(gm) ==
    LET sizes == sorted(DOMAIN gm)
        first == gm[sizes[1]]
    IN [gene_id \in DOMAIN first |->
          [total_exon_bases |-> first[gene_id].total_exon_bases,
           mappable_bases |-> first[gene_id].mappable_bases,
           mappability_ratio |->
             [kmer \in DOMAIN gm |->
                IF kmer = sizes[1] THEN first[gene_id].mappability_ratio
                ELSE aligned(gm[kmer], gene_id)]]]

InitMerge ==
    /\ pc = "genes"
    /\ data \in UNION {[L -> MergeTrackSets] : L \in SUBSET Labels}
    /\ gtf_data \in UNION {[1..n -> MergeFeatures] : n \in 0..MaxExons}
    /\ gene_mappability = EmptyDict
    /\ merged_data = EmptyDict
    /\ DiffIdle
    /\ bigwig_files = Unused
    /\ disk = Unused
    /\ kmer_sizes = Unused
    /\ i = 0
    /\ j = 0
    /\ results = Unused
    /\ mappability_data = Unused
    /\ df = Unused

\* analyze_gene_mappability_changes, lines 150-153: one table for each label;
\* an exception of calculate_gene_mappability leaves the function
AnalyzeGenes ==
    /\ pc = "genes"
    /\ IF \E kmer \in DOMAIN data :
            calculate_gene_mappability(data[kmer], gtf_data).raised
       THEN pc' = "raised" /\ UNCHANGED gene_mappability
       ELSE /\ gene_mappability' =
                 [kmer \in DOMAIN data |->
                    calculate_gene_mappability(data[kmer], gtf_data).value]
            /\ pc' = "plot"
    /\ UNCHANGED <<merged_data, diffVars, multiVars, geneVars>>

\* plot_gene_mappability_changes, lines 65-72; kmer_sizes[0] raises
\* IndexError when there is no label
Merge ==
    /\ pc = "plot"
    /\ IF DOMAIN gene_mappability = {}
       THEN pc' = "raised" /\ UNCHANGED merged_data
       ELSE merged_data' = merge_tables(gene_mappability) /\ pc' = "merged"
    /\ UNCHANGED <<gene_mappability, diffVars, multiVars, geneVars>>

NextMerge == AnalyzeGenes \/ Merge

SpecMerge == InitMerge /\ [][NextMerge]_vars

\* the label before all others in sorted order
Smallest(labels) == CHOOSE k \in labels : \A o \in labels \ {k} : StrLess(k, o)

\* C10: the merged table has one row for each gene_id of the table of the
\* smallest label and one ratio column for each label; the value is the
\* gene's mappability_ratio in that label's table, and NaN, never 0, when
\* the gene is absent from it; genes of other tables only do not appear.
C10_MergedRatios ==
    pc = "merged" =>
      LET k0 == Smallest(DOMAIN gene_mappability)
      IN /\ DOMAIN merged_data = DOMAIN gene_mappability[k0]
         /\ \A g \in DOMAIN merged_data :
              /\ DOMAIN merged_data[g].mappability_ratio = DOMAIN gene_mappability
              /\ \A k \in DOMAIN gene_mappability :
                   merged_data[g].mappability_ratio[k] =
                     IF g \in DOMAIN gene_mappability[k]
                     THEN gene_mappability[k][g].mappability_ratio
                     ELSE NaN

C10_Witness ==
    /\ pc = "merged"
    /\ DOMAIN gene_mappability = Labels
    /\ \E g \in DOMAIN merged_data : \E k \in Labels :
         /\ g \notin DOMAIN gene_mappability[k]
         /\ merged_data[g].mappability_ratio[k] = NaN
    /\ \E k \in Labels : \E g \in DOMAIN gene_mappability[k] :
         g \notin DOMAIN merged_data
    /\ \E g \in DOMAIN merged_data :
         merged_data[g].mappability_ratio[<<"2", "1">>].kind = "num"

====
